---- MODULE Spec2Model ----
(***************************************************************************)
(* geom_pointrange and geom_dotplot of plotnine.                           *)
(*                                                                         *)
(* The geoms are called by the plotting framework with a data frame and    *)
(* parameters and hand their results to the drawing toolkit.  The state    *)
(* of the model is what a caller can observe: the data frame it passed     *)
(* (pandas frames are passed by reference), the warnings emitted, the      *)
(* frame returned, and the calls received by the toolkit (the Axes and     *)
(* the legend DrawingArea).                                                *)
(*                                                                         *)
(* Python floats are modelled as exact rationals <<n, d>> with d > 0;      *)
(* float rounding is not modelled.  Sizes of geom_pointrange are integers  *)
(* in an arbitrary unit.                                                   *)
(***************************************************************************)
EXTENDS Integers, Sequences, FiniteSets, TLC

VARIABLES
    \* ---- geom_pointrange ----
    fattenArg,      \* the 'fatten' argument given to geom_pointrange: <<>> or <<f>>
    prData,         \* the DataFrame the caller hands to draw_group
    prKey,          \* the legend row the caller hands to draw_legend
    prAx,           \* draw_group calls received by the toolkit, in order
    prDa,           \* draw_legend calls received by the toolkit, in order
    prOrig,         \* history: <<sizes of prData, size of prKey>> at construction
    prCalls,        \* number of draw_group / draw_legend calls made so far
    \* ---- geom_dotplot ----
    gp,             \* self.params of geom_dotplot
    sp,             \* self._stat.params
    data,           \* the DataFrame handed to setup_data (output of the stat)
    pc,             \* "start" | "returned": position of setup_data
    warnings,       \* the warnings emitted so far, in order
    result,         \* the DataFrame returned by setup_data
    factor,         \* (ax_width/ax_height) * ptp(ranges.y)/ptp(ranges.x) of the Axes
    ax              \* the PatchCollections added to the Axes, in order

prVars == <<fattenArg, prData, prKey, prAx, prDa, prOrig, prCalls>>
dotVars == <<gp, sp, data, pc, warnings, result, factor, ax>>
vars == <<prVars, dotVars>>

None == "None"

\* ------------------------------------------------------------------ bounds
MaxRows == 2        \* rows of a data frame
MaxSize == 2        \* largest 'size' aesthetic
MaxFatten == 3      \* largest user-supplied fatten
MaxCalls == 2       \* draw calls made on the same data
MaxCount2 == 4      \* largest bin count, in halves (counts are 0, 1/2, .., MaxCount2/2)

\* ------------------------------------------------------------------ rationals
R(n) == <<n, 1>>
RAdd(a, b) == <<a[1] * b[2] + b[1] * a[2], a[2] * b[2]>>
RSub(a, b) == <<a[1] * b[2] - b[1] * a[2], a[2] * b[2]>>
RNeg(a) == <<-a[1], a[2]>>
RMul(a, b) == <<a[1] * b[1], a[2] * b[2]>>
\* a / b for b # 0
RDiv(a, b) == IF b[1] > 0 THEN <<a[1] * b[2], a[2] * b[1]>>
              ELSE <<-(a[1] * b[2]), a[2] * (-b[1])>>
REq(a, b) == a[1] * b[2] = b[1] * a[2]
RLt(a, b) == a[1] * b[2] < b[1] * a[2]
RAbs(a) == IF a[1] < 0 THEN <<-a[1], a[2]>> ELSE a
\* np.floor of a rational
RFloor(a) == IF a[1] >= 0 THEN a[1] \div a[2] ELSE -((-a[1] + a[2] - 1) \div a[2])
\* int(c): truncation toward zero
PyInt(a) == IF a[1] >= 0 THEN a[1] \div a[2] ELSE -((-a[1]) \div a[2])

\* ================================================================== geom_pointrange

DEFAULT_PARAMS == [stat |-> "identity", position |-> "identity",
                   na_rm |-> FALSE, fatten |-> 4]

\* the default documented for 'fatten' in the class docstring
DocumentedFatten == 2

\* geom_point.DEFAULT_AES['stroke']
PointDefaultStroke == "geom_point.DEFAULT_AES.stroke"

\* self.params: DEFAULT_PARAMS overridden by the arguments given
Params == [DEFAULT_PARAMS EXCEPT !.fatten =
              IF fattenArg = <<>> THEN DEFAULT_PARAMS.fatten ELSE fattenArg[1]]

SizeVals == 1..MaxSize
FattenVals == 1..MaxFatten

\* a row of the caller's frame: the required aesthetics and size; the
\* 'stroke' column does not exist (None) in what the caller passes
PrRow(y, s) == [x |-> 1, y |-> y, ymin |-> y - 1, ymax |-> y + 1,
                size |-> s, stroke |-> None]
PrRows == {PrRow(1, s) : s \in SizeVals}
PrFrames == UNION {[1..n -> PrRows] : n \in 0..MaxRows}

Sizes(df) == [i \in 1..Len(df) |-> df[i].size]

\* data['size'] = data['size'] * fatten ; data['stroke'] = DEFAULT stroke
Fattened(df, fatten) ==
    [i \in 1..Len(df) |-> [df[i] EXCEPT !.size = df[i].size * fatten,
                                        !.stroke = PointDefaultStroke]]

\* what the toolkit receives in one call
Call(fn, df, n) == [fn |-> fn, data |-> df, call |-> n]

\* geom_pointrange.draw_group(data, panel_params, coord, ax, **params)
DrawGroupPointrange ==
    /\ prCalls < MaxCalls
    /\ LET copy == prData
           fat == Fattened(prData, Params.fatten)
       IN /\ prAx' = prAx \o <<Call("geom_linerange.draw_group", copy, prCalls + 1),
                               Call("geom_point.draw_group", fat, prCalls + 1)>>
          /\ prData' = fat
    /\ prCalls' = prCalls + 1
    /\ UNCHANGED <<fattenArg, prKey, prDa, prOrig, dotVars>>

\* geom_pointrange.draw_legend(data, da, lyr)
DrawLegendPointrange ==
    /\ prCalls < MaxCalls
    /\ LET fat == Fattened(<<prKey>>, Params.fatten)[1]
       IN /\ prDa' = prDa \o <<Call("geom_path.draw_legend", <<prKey>>, prCalls + 1),
                               Call("geom_point.draw_legend", <<fat>>, prCalls + 1)>>
          /\ prKey' = fat
    /\ prCalls' = prCalls + 1
    /\ UNCHANGED <<fattenArg, prData, prAx, prOrig, dotVars>>

DotIdle ==
    /\ gp = None /\ sp = None /\ data = <<>> /\ pc = "idle"
    /\ warnings = <<>> /\ result = <<>> /\ factor = R(1) /\ ax = <<>>

InitPointrange ==
    /\ fattenArg \in {<<>>} \cup {<<f>> : f \in FattenVals}
    /\ prData \in PrFrames
    /\ prKey \in PrRows
    /\ prAx = <<>>
    /\ prDa = <<>>
    /\ prOrig = <<Sizes(prData), prKey.size>>
    /\ prCalls = 0
    /\ DotIdle

NextPointrange == DrawGroupPointrange \/ DrawLegendPointrange

SpecPointrange == InitPointrange /\ [][NextPointrange]_vars

\* ------------------------------------------------------------------ claims on geom_pointrange

PointCalls(log) == {i \in 1..Len(log) : log[i].fn \in {"geom_point.draw_group", "geom_point.draw_legend"}}
Times(sizes, k) == [i \in 1..Len(sizes) |-> sizes[i] * k]

\* C1: draw_group and draw_legend do not mutate the rows handed in: after any
\* sequence of calls every row's size is what it was before the first call,
\* so every call draws the point at size * fatten of that original size.
C1_RowsNotMutated ==
    /\ Sizes(prData) = prOrig[1]
    /\ prKey.size = prOrig[2]
    /\ \A i \in PointCalls(prAx) : Sizes(prAx[i].data) = Times(prOrig[1], Params.fatten)
    /\ \A i \in PointCalls(prDa) : Sizes(prDa[i].data) = <<prOrig[2] * Params.fatten>>

\* C3: when no fatten is supplied, the point of draw_group and the key of
\* draw_legend are drawn at the documented default, 2 times the size the row
\* has when the call is made (the size the line of the same call is drawn with).
C3_DefaultFattenIsDocumented ==
    fattenArg = <<>> =>
        /\ \A i \in PointCalls(prAx) :
              Sizes(prAx[i].data) = Times(Sizes(prAx[i - 1].data), DocumentedFatten)
        /\ \A i \in PointCalls(prDa) :
              Sizes(prDa[i].data) = Times(Sizes(prDa[i - 1].data), DocumentedFatten)

\* the calls of log come in pairs: first the line (fn1) on the original,
\* un-fattened sizes without a stroke column, then the point (fn2) on the
\* original sizes times fatten with geom_point's default stroke
LineThenPoint(log, fn1, fn2, orig) ==
    /\ Len(log) % 2 = 0
    /\ \A i \in 1..Len(log) : i % 2 = 1 =>
          /\ log[i].fn = fn1 /\ log[i + 1].fn = fn2
          /\ log[i].call = log[i + 1].call
          /\ Sizes(log[i].data) = orig
          /\ \A j \in 1..Len(log[i].data) : log[i].data[j].stroke = None
          /\ Sizes(log[i + 1].data) = Times(orig, Params.fatten)
          /\ \A j \in 1..Len(log[i + 1].data) :
                log[i + 1].data[j].stroke = PointDefaultStroke

\* C5: draw_group draws the line-range once on the original un-fattened size,
\* and only then the point once with size = original size * fatten and the
\* default stroke; the line-range never sees the fattened size or the stroke
\* column; draw_legend keeps the same order (path key, then point key).
C5_LinerangeThenPoint ==
    /\ LineThenPoint(prAx, "geom_linerange.draw_group", "geom_point.draw_group", prOrig[1])
    /\ LineThenPoint(prDa, "geom_path.draw_legend", "geom_point.draw_legend", <<prOrig[2]>>)

\* ================================================================== geom_dotplot

\* a column that the frame does not have, an option that is None
NoValue == <<>>

PositionWarning == "position='stack' doesn't work properly with geom_dotplot. Use stackgroups=True instead."
StackgroupsWarning == "geom_dotplot called with stackgroups=TRUE and method='dotdensity'. You probably want to set binpositions='all'"

\* the stackgroups warning issued whatever binpositions is
SetupWarningsAnyBinpositions(g, s) ==
    (IF g.position = "stack" THEN <<PositionWarning>> ELSE <<>>)
    \o (IF g.stackgroups /\ s.method = "dotdensity"
        THEN <<StackgroupsWarning>> ELSE <<>>)

\* the warnings setup_data issues, in order
SetupWarnings(g, s) ==
    (IF g.position = "stack" THEN <<PositionWarning>> ELSE <<>>)
    \o (IF g.stackgroups /\ s.method = "dotdensity" /\ s.binpositions = "bygroup"
        THEN <<StackgroupsWarning>> ELSE <<>>)

\* the least element of a non-empty set of rationals
RMin(S) == CHOOSE m \in S : \A o \in S : ~RLt(o, m)
RMax(S) == CHOOSE m \in S : \A o \in S : ~RLt(m, o)

Column(df, c) == [i \in 1..Len(df) |-> df[i][c]]
Range(f) == {f[i] : i \in DOMAIN f}

\* utils.resolution(x, False): the smallest distance between two distinct
\* values, 1 when there is only one value
resolution(xs) ==
    LET diffs == {RAbs(RSub(a, b)) : <<a, b>> \in {p \in Range(xs) \X Range(xs) : ~REq(p[1], p[2])}}
    IN IF diffs = {} THEN R(1) ELSE RMin(diffs)

\* 'width' in data
HasWidth(df) == \E i \in 1..Len(df) : df[i].width # NoValue

\* if 'width' not in data: data['width'] = sp['width'] or resolution(x) * 0.9
SetWidth(df, s) ==
    IF HasWidth(df) THEN df
    ELSE LET w == IF s.width # NoValue /\ s.width[1] # 0 THEN s.width
                  ELSE RMul(resolution(Column(df, "x")), <<9, 10>>)
         IN [i \in 1..Len(df) |-> [df[i] EXCEPT !.width = w]]

\* the largest element of a non-empty sequence of integers
SeqMax(a) == CHOOSE m \in Range(a) : \A o \in Range(a) : o <= m

\* the stacking function chosen by stackdir, applied to the countidx of a stack
stackdots(stackdir, a) ==
    [i \in 1..Len(a) |->
        CASE stackdir \in {None, "up"} -> RSub(R(a[i]), <<1, 2>>)
          [] stackdir = "down" -> RAdd(RNeg(R(a[i])), <<1, 2>>)
          [] stackdir = "center" ->
                RSub(R(a[i] - 1), RDiv(R(SeqMax(a) - 1), R(2)))
          [] stackdir = "centerwhole" ->
                R(a[i] - 1 - RFloor(RDiv(R(SeqMax(a) - 1), R(2))))]

stackaxismin(stackdir) ==
    CASE stackdir \in {None, "up"} -> R(0)
      [] stackdir = "down" -> R(-1)
      [] stackdir \in {"center", "centerwhole"} -> <<-1, 2>>

stackaxismax(stackdir) ==
    CASE stackdir \in {None, "up"} -> R(1)
      [] stackdir = "down" -> R(0)
      [] stackdir \in {"center", "centerwhole"} -> <<1, 2>>

\* range(n) repeated index i
Repeat(i, n) == [j \in 1..n |-> i]

\* idx = [i for i, c in enumerate(data['count']) for j in range(int(c))]
RECURSIVE FillIdxFrom(_, _)
FillIdxFrom(df, i) ==
    IF i > Len(df) THEN <<>>
    ELSE Repeat(i, PyInt(df[i].count)) \o FillIdxFrom(df, i + 1)
FillIdx(df) == FillIdxFrom(df, 1)

\* data.iloc[idx] with the index reset
Iloc(df, idx) == [k \in 1..Len(idx) |-> df[idx[k]]]

\* the values of the grouping columns in a row
\* (PANEL and group are integer columns, the others float columns)
KeyOf(row, cols) ==
    [i \in 1..Len(cols) |->
        IF cols[i] \in {"PANEL", "group"} THEN R(row[cols[i]]) ELSE row[cols[i]]]

\* the order in which groupby sorts its keys
LexLess(k1, k2) ==
    \E i \in 1..Len(k1) :
        /\ RLt(k1[i], k2[i])
        /\ \A j \in 1..(i - 1) : REq(k1[j], k2[j])

\* the sub-frames of df.groupby(cols), in the order of their keys
RECURSIVE GroupsOf(_, _, _)
GroupsOf(df, cols, keys) ==
    IF keys = {} THEN <<>>
    ELSE LET k == CHOOSE m \in keys : \A o \in keys : ~LexLess(o, m)
         IN <<SelectSeq(df, LAMBDA r : KeyOf(r, cols) = k)>>
            \o GroupsOf(df, cols, keys \ {k})
groupby(df, cols) == GroupsOf(df, cols, {KeyOf(df[i], cols) : i \in 1..Len(df)})

RECURSIVE Concat(_)
Concat(ss) == IF ss = <<>> THEN <<>> ELSE Head(ss) \o Concat(Tail(ss))

\* utils.groupby_apply(df, cols, func): func on every sub-frame, concatenated
\* (func is given as a function on the sub-frames)
groupby_apply(df, cols, func) ==
    LET gs == groupby(df, cols)
    IN Concat([i \in 1..Len(gs) |-> func[gs[i]]])

\* groupvars = [binaxis, 'PANEL'] (+ 'group' unless stackgroups)
groupvars(g, s) ==
    <<s.binaxis, "PANEL">> \o (IF ~g.stackgroups THEN <<"group">> ELSE <<>>)

\* func: countidx = 1..len(df), stackpos = stackdots(countidx)
StackFunc(df, stackdir) ==
    LET countidx == [i \in 1..Len(df) |-> i]
        stackpos == stackdots(stackdir, countidx)
    IN [i \in 1..Len(df) |->
           df[i] @@ [countidx |-> countidx[i], stackpos |-> stackpos[i]]]

\* binaxis == 'x': the bounding rectangle of each stack, y = 0
BoundsX(df, stackdir) ==
    [i \in 1..Len(df) |->
        [y |-> R(0)] @@ df[i] @@
        [xmin |-> RSub(df[i].x, RDiv(df[i].binwidth, R(2))),
         xmax |-> RAdd(df[i].x, RDiv(df[i].binwidth, R(2))),
         ymin |-> stackaxismin(stackdir),
         ymax |-> stackaxismax(stackdir)]]

\* binaxis == 'y': func sets ymin, ymax per group from the first binwidth of
\* the whole frame, then xmin, xmax from x and width
YFunc(df, whole) ==
    [i \in 1..Len(df) |->
        df[i] @@
        [ymin |-> RSub(RMin(Range(Column(df, "y"))), RDiv(whole[1].binwidth, R(2))),
         ymax |-> RAdd(RMax(Range(Column(df, "y"))), RDiv(whole[1].binwidth, R(2)))]]

BoundsY(df, stackdir) ==
    LET d2 == groupby_apply(df, <<"group">>,
                            [d \in Range(groupby(df, <<"group">>)) |-> YFunc(d, df)])
    IN [i \in 1..Len(d2) |->
           d2[i] @@
           [xmin |-> RAdd(d2[i].x, RMul(d2[i].width, stackaxismin(stackdir))),
            xmax |-> RAdd(d2[i].x, RMul(d2[i].width, stackaxismax(stackdir)))]]

\* every non-empty bin once
FillBinsOnce(df) == SelectSeq(df, LAMBDA r : PyInt(r.count) >= 1)

\* the bins filled: data.iloc[idx]
FillBins(df) == Iloc(df, FillIdx(df))

\* the frame setup_data returns
SetupResult(df, g, s) ==
    LET d1 == SetWidth(df, s)
        d2 == FillBins(d1)
        d3 == groupby_apply(d2, groupvars(g, s),
                            [d \in Range(groupby(d2, groupvars(g, s))) |->
                                StackFunc(d, g.stackdir)])
    IN IF s.binaxis = "x" THEN BoundsX(d3, g.stackdir)
       ELSE BoundsY(d3, g.stackdir)

\* geom_dotplot.setup_data(self, data)
SetupData ==
    /\ pc = "start"
    /\ warnings' = warnings \o SetupWarnings(gp, sp)
    /\ result' = SetupResult(data, gp, sp)
    /\ pc' = "returned"
    /\ UNCHANGED <<gp, sp, data, factor, ax, prVars>>

\* coord.transform(data, panel_params) of cartesian coordinates on finite data
CoordTransform(df) == df

\* the offsets without the stackratio
OffsetsNoRatio(df, stackratio) == [i \in 1..Len(df) |-> df[i].stackpos]

\* offsets = data['stackpos'] * params['stackratio']
Offsets(df, stackratio) == [i \in 1..Len(df) |-> RMul(df[i].stackpos, stackratio)]

\* the ellipses draw_group makes of the rows of one group
Circles(df0, g, s, f) ==
    LET df == CoordTransform(df0)
        size == RMul(df[1].binwidth, g.dotsize)
        offsets == Offsets(df, g.stackratio)
        width == IF s.binaxis = "x" THEN size ELSE RDiv(size, f)
        height == IF s.binaxis = "x" THEN RMul(size, f) ELSE size
    IN [i \in 1..Len(df) |->
           [xy |-> IF s.binaxis = "x"
                   THEN <<df[i].x, RAdd(df[i].y, RMul(height, offsets[i]))>>
                   ELSE <<RAdd(df[i].x, RMul(width, offsets[i])), df[i].y>>,
            width |-> width, height |-> height]]

\* the groups of the returned frame, the groups already drawn
GroupsIn(df) == {df[i].group : i \in 1..Len(df)}
Drawn == {ax[i].group : i \in 1..Len(ax)}

\* geom_dotplot.draw_group(data, panel_params, coord, ax, **params), called by
\* the framework once for every group of the frame setup_data returned
DrawGroup(grp) ==
    /\ pc = "returned"
    /\ grp \in GroupsIn(result) \ Drawn
    /\ LET gdata == SelectSeq(result, LAMBDA r : r.group = grp)
       IN ax' = Append(ax, [group |-> grp, rows |-> gdata,
                            circles |-> Circles(gdata, gp, sp, factor)])
    /\ UNCHANGED <<gp, sp, data, pc, warnings, result, factor, prVars>>

\* ------------------------------------------------------------------ inputs
Positions == {1, 2}
Groups == {1, 2}
Counts == {<<c, 2>> : c \in 0..MaxCount2}
StackDirs == {None, "up", "down", "center", "centerwhole"}
StackRatios == {<<1, 2>>, R(1), <<3, 2>>}
DotSizes == {R(1), R(2)}
Factors == {<<1, 2>>, R(1), R(2)}

\* a row of the stat's output: one bin of one group.  The bin position is x
\* for binaxis 'x' and y for binaxis 'y', where x is the position of the group
BinRow(binaxis, pos, grp, c, bw, w) ==
    [x |-> IF binaxis = "x" THEN R(pos) ELSE R(grp),
     y |-> IF binaxis = "x" THEN R(0) ELSE R(pos),
     count |-> c, binwidth |-> bw, PANEL |-> 1, group |-> grp, width |-> w]

\* frames of 1..MaxRows bins, ordered by group and position, no bin twice,
\* at least one bin holding a dot (the stat bins at least one observation;
\* what utils.groupby_apply makes of a frame without rows is not modelled)
BinKeyLess(r1, r2, binaxis) ==
    LET p1 == IF binaxis = "x" THEN r1.x ELSE r1.y
        p2 == IF binaxis = "x" THEN r2.x ELSE r2.y
    IN r1.group < r2.group \/ (r1.group = r2.group /\ RLt(p1, p2))

Frames(binaxis, counts, bw, w) ==
    LET rows == {BinRow(binaxis, p, g, c, bw, w) :
                    p \in Positions, g \in Groups, c \in counts}
    IN {f \in UNION {[1..n -> rows] : n \in 1..MaxRows} :
           /\ \A i \in 1..(Len(f) - 1) : BinKeyLess(f[i], f[i + 1], binaxis)
           /\ \E i \in 1..Len(f) : PyInt(f[i].count) >= 1}

DotStart ==
    /\ pc = "start" /\ warnings = <<>> /\ result = <<>> /\ ax = <<>>

PrIdle ==
    /\ fattenArg = <<>> /\ prData = <<>> /\ prKey = PrRow(1, 1)
    /\ prAx = <<>> /\ prDa = <<>> /\ prOrig = <<<<>>, 1>> /\ prCalls = 0

\* every combination of the parameters the warnings depend on, one bin
InitWarnCases ==
    /\ gp \in [position : {"identity", "stack", "dodge"}, stackgroups : BOOLEAN,
               stackdir : StackDirs, stackratio : {R(1)}, dotsize : {R(1)}]
    /\ sp \in [method : {"dotdensity", "histodot"}, binpositions : {"bygroup", "all"},
               binaxis : {"x", "y"}, width : {NoValue}]
    /\ data = <<BinRow(sp.binaxis, 1, 1, <<MaxCount2, 2>>, R(1), NoValue)>>
    /\ factor = R(1)

\* every frame of bins, with and without a width
InitFillCases ==
    /\ gp \in [position : {"identity"}, stackgroups : BOOLEAN,
               stackdir : {"up"}, stackratio : {R(1)}, dotsize : {R(1)}]
    /\ \E w \in {<<NoValue, NoValue>>, <<R(2), NoValue>>, <<NoValue, R(1)>>} :
         /\ sp \in [method : {"dotdensity"}, binpositions : {"all"},
                    binaxis : {"x", "y"}, width : {w[2]}]
         /\ \E bw \in {R(1), R(2)} : data \in Frames(sp.binaxis, Counts, bw, w[1])
    /\ factor = R(1)

\* every way of stacking and drawing, bins of three dots
InitStackCases ==
    /\ gp \in [position : {"identity"}, stackgroups : BOOLEAN,
               stackdir : StackDirs, stackratio : StackRatios, dotsize : DotSizes]
    /\ sp \in [method : {"dotdensity"}, binpositions : {"all"},
               binaxis : {"x", "y"}, width : {NoValue}]
    /\ data \in Frames(sp.binaxis, {R(3)}, R(1), NoValue)
    /\ factor \in Factors

InitDotplot ==
    /\ PrIdle
    /\ DotStart
    /\ (InitWarnCases \/ InitFillCases \/ InitStackCases)

NextDotplot == SetupData \/ \E grp \in Groups : DrawGroup(grp)

SpecDotplot == InitDotplot /\ [][NextDotplot]_vars

\* ------------------------------------------------------------------ claims on geom_dotplot

\* the sum of int(c) over a column of counts
RECURSIVE SumInt(_)
SumInt(counts) == IF counts = <<>> THEN 0 ELSE PyInt(Head(counts)) + SumInt(Tail(counts))

Occurrences(seq, v) == Cardinality({i \in 1..Len(seq) : seq[i] = v})

\* C2: setup_data emits the position warning exactly when position is
\* 'stack', the stackgroups warning exactly when stackgroups is set with
\* method 'dotdensity' and binpositions 'bygroup', no other warning, and in
\* every case it returns the stacked data (one row per dot, with its stackpos).
C2_WarningsOnly ==
    pc = "returned" =>
        /\ Occurrences(warnings, PositionWarning)
              = (IF gp.position = "stack" THEN 1 ELSE 0)
        /\ Occurrences(warnings, StackgroupsWarning)
              = (IF gp.stackgroups /\ sp.method = "dotdensity"
                    /\ sp.binpositions = "bygroup" THEN 1 ELSE 0)
        /\ Range(warnings) \subseteq {PositionWarning, StackgroupsWarning}
        /\ Len(result) = SumInt(Column(data, "count"))
        /\ \A i \in 1..Len(result) :
              {"countidx", "stackpos"} \subseteq DOMAIN result[i]

\* setup_data has returned after issuing both warnings
C2_Witness ==
    /\ pc = "returned"
    /\ warnings = <<PositionWarning, StackgroupsWarning>>
    /\ Len(result) > 0

\* the dots drawn: <<collection, index in the collection>>
Dots == UNION {{<<c, i>> : i \in 1..Len(ax[c].rows)} : c \in 1..Len(ax)}
DotRow(d) == ax[d[1]].rows[d[2]]
DotCircle(d) == ax[d[1]].circles[d[2]]
\* centre along the stacking axis, centre along the bin axis, diameter along
\* the stacking axis
StackCoord(d) == IF sp.binaxis = "x" THEN DotCircle(d).xy[2] ELSE DotCircle(d).xy[1]
BinCoord(d) == IF sp.binaxis = "x" THEN DotCircle(d).xy[1] ELSE DotCircle(d).xy[2]
Diameter(d) == IF sp.binaxis = "x" THEN DotCircle(d).height ELSE DotCircle(d).width
\* where the row of the dot lies on the stacking axis, on the bin axis
StackBase(d) == IF sp.binaxis = "x" THEN DotRow(d).y ELSE DotRow(d).x
BinBase(d) == IF sp.binaxis = "x" THEN DotRow(d).x ELSE DotRow(d).y
\* d2 is the next dot after d1 in the same stack
NextInStack(d1, d2) ==
    /\ KeyOf(DotRow(d1), groupvars(gp, sp)) = KeyOf(DotRow(d2), groupvars(gp, sp))
    /\ DotRow(d2).countidx = DotRow(d1).countidx + 1
Distance(d1, d2) == RAbs(RSub(StackCoord(d2), StackCoord(d1)))
Spacing(d1, d2) ==
    /\ REq(Distance(d1, d2), RMul(gp.stackratio, Diameter(d1)))
    /\ RLt(Distance(d1, d2), Diameter(d1)) <=> RLt(gp.stackratio, R(1))
    /\ REq(Distance(d1, d2), Diameter(d1)) <=> REq(gp.stackratio, R(1))
    /\ RLt(Diameter(d1), Distance(d1, d2)) <=> RLt(R(1), gp.stackratio)
    /\ REq(BinCoord(d1), BinBase(d1))
    /\ REq(BinCoord(d2), BinBase(d2))

\* C4 as stated: any two dots with consecutive countidx in the same stack are
\* stackratio diameters apart along the stacking axis (overlapping iff
\* stackratio < 1, touching iff = 1, apart iff > 1) and lie at their row's
\* unshifted position along the bin axis.
C4_AsStated ==
    \A d1 \in Dots, d2 \in Dots : NextInStack(d1, d2) => Spacing(d1, d2)

\* C4 amended: the same, for the pairs whose rows have the same coordinate
\* on the stacking axis (y, which setup_data sets to 0, for binaxis 'x'; x
\* for binaxis 'y') and which are drawn with the same diameter.
C4_SameBase ==
    \A d1 \in Dots, d2 \in Dots :
        (/\ NextInStack(d1, d2)
         /\ REq(StackBase(d1), StackBase(d2))
         /\ REq(Diameter(d1), Diameter(d2))) => Spacing(d1, d2)

\* two groups stacked on each other (stackgroups) and a stack of one group,
\* both drawn, the dots closer than touching
C4_Witness ==
    /\ gp.stackgroups
    /\ RLt(gp.stackratio, R(1))
    /\ \E d1 \in Dots, d2 \in Dots :
          /\ NextInStack(d1, d2) /\ DotRow(d1).group # DotRow(d2).group
          /\ REq(StackBase(d1), StackBase(d2)) /\ REq(Diameter(d1), Diameter(d2))
    /\ \E d1 \in Dots, d2 \in Dots :
          /\ NextInStack(d1, d2) /\ DotRow(d1).group = DotRow(d2).group

\* the columns a replica shares with the bin it fills
SameBin(r, b) ==
    /\ r.x = b.x /\ r.binwidth = b.binwidth /\ r.PANEL = b.PANEL
    /\ r.group = b.group /\ r.count = b.count
    /\ sp.binaxis = "y" => r.y = b.y

\* C6: every input row with count c appears int(c) times in the output, with
\* the same x, binwidth, PANEL and group (rows with int(count) = 0 not at
\* all), and the output has sum of int(count) rows.
C6_RowReplication ==
    pc = "returned" =>
        /\ Len(result) = SumInt(Column(data, "count"))
        /\ \A i \in 1..Len(data) :
              Cardinality({k \in 1..Len(result) : SameBin(result[k], data[i])})
                 = SumInt(Column(SelectSeq(data, LAMBDA b : SameBin(b, data[i])), "count"))
        /\ \A k \in 1..Len(result) : \E i \in 1..Len(data) : SameBin(result[k], data[i])

\* a bin filled with two dots or more and a bin of count 1/2, which int() empties
C6_Witness ==
    /\ pc = "returned"
    /\ \E i \in 1..Len(data), j \in 1..Len(data) :
          /\ PyInt(data[i].count) >= 2
          /\ data[j].count = <<1, 2>>
    /\ Len(result) >= 2

====
